---- MODULE Spec2Model ----
(***************************************************************************)
(* A model of git_profile.py: the GitHub profile snapshot generator.       *)
(*                                                                         *)
(* Strings are sequences of code points (natural numbers), so that Python  *)
(* string comparison is lexicographic comparison of sequences, len() is    *)
(* Len and slicing is SubSeq.  Tuples used as sort keys are sequences too. *)
(***************************************************************************)
EXTENDS Integers, Sequences, FiniteSets, TLC

VARIABLES
    pc,        \* position of main: "fetch_user", "fetch_repos", "build_markdown",
               \* "write", "print", "exit"
    user,      \* main's local `user` (parsed body of the user request)
    repos,     \* fetch_repos' local `repos`
    page,      \* fetch_repos' local `page`
    md,        \* main's local `md` (the rendered document), NoDoc before
    last,      \* the last response received by gh_get
    log,       \* history of the requests issued: <<target, page, ok, batch>>
    file,      \* content of the output file on disk
    opens,     \* number of times the output file was opened for writing
    exitCode,  \* process exit code, Running while the process runs
    handler,   \* which except clause of main handled the failure
    stderr,    \* diagnostic written to the error stream
    stdout,    \* confirmation written to the output stream
    fn,        \* pure-function specifications: the function applied
    arg,       \* pure-function specifications: its arguments
    res        \* pure-function specifications: its result

vars == <<pc, user, repos, page, md, last, log, file, opens, exitCode,
          handler, stderr, stdout, fn, arg, res>>

mainVars == <<pc, user, repos, page, md, last, log, file, opens, exitCode,
              handler, stderr, stdout>>

pureVars == <<fn, arg, res>>

----------------------------------------------------------------------------
(* Python primitives *)

Min(a, b) == IF a <= b THEN a ELSE b

Max(a, b) == IF a >= b THEN a ELSE b

\* seq[:n] for any integer n (a negative n counts from the end)
SliceTo(seq, n) ==
    IF n >= 0 THEN SubSeq(seq, 1, Min(n, Len(seq)))
    ELSE SubSeq(seq, 1, Max(Len(seq) + n, 0))

\* a < b for two strings, or for two tuples of integers
LexLess(a, b) ==
    \E k \in 1..(Min(Len(a), Len(b)) + 1) :
        /\ \A i \in 1..(k - 1) : a[i] = b[i]
        /\ \/ k = Len(a) + 1 /\ k <= Len(b)
           \/ k <= Len(a) /\ k <= Len(b) /\ a[k] < b[k]

\* x or y, for strings (None and "" are both the empty sequence)
OrElse(x, y) == IF x # <<>> THEN x ELSE y

\* the place element i takes in a stable descending sort by `key`: after
\* every element with a greater key, and after the earlier ones with an
\* equal key
PlaceDesc(key, i) ==
    1 + Cardinality({ j \in DOMAIN key : LexLess(key[i], key[j]) })
      + Cardinality({ j \in DOMAIN key : j < i /\ key[j] = key[i] })

\* seq sorted as sort(key=..., reverse=True) sorts it, key[i] being the key
\* of seq[i]
SortedDesc(seq, key) ==
    [p \in 1..Len(seq) |-> seq[CHOOSE i \in 1..Len(seq) : PlaceDesc(key, i) = p]]

RECURSIVE SelectSeqIdx(_, _, _)
SelectSeqIdx(seq, i, keep) ==
    IF i > Len(seq) THEN <<>>
    ELSE IF keep[i] THEN <<seq[i]>> \o SelectSeqIdx(seq, i + 1, keep)
    ELSE SelectSeqIdx(seq, i + 1, keep)

----------------------------------------------------------------------------
(* Fixed texts of the program, as code points *)

Dash == <<8211>>                                            \* the en dash cell

Ellipsis == <<8230>>                                        \* the one-character ellipsis

Space == <<32>>

Whitespace == {32, 9, 10}                                   \* what str.split() splits on

NoReposText ==                                              \* "No repositories found"
    <<78, 111, 32, 114, 101, 112, 111, 115, 105, 116, 111, 114, 105, 101, 115,
      32, 102, 111, 117, 110, 100>>

NoActivityText ==                                           \* "No public activity found."
    <<78, 111, 32, 112, 117, 98, 108, 105, 99, 32, 97, 99, 116, 105, 118, 105,
      116, 121, 32, 102, 111, 117, 110, 100, 46>>

LatestPushText ==                                           \* "Latest push: **"
    <<76, 97, 116, 101, 115, 116, 32, 112, 117, 115, 104, 58, 32, 42, 42>>

ToText == <<42, 42, 32, 116, 111, 32>>                      \* "** to "

DateLen == 10                                               \* pushed[:10]

DescLimit == 80                                             \* truncate(..., 80)

TableN == 6                                                 \* repos_table_rows(repos, n=6)

MaxPages == 10                                              \* if page > 10: break

RECURSIVE Str(_)
\* str(n) for a non-negative integer: its decimal digits
Str(n) == IF n < 10 THEN <<48 + n>> ELSE Str(n \div 10) \o <<48 + (n % 10)>>

----------------------------------------------------------------------------
(* The formatting helpers *)

md_link(text, url) ==
    IF url = <<>> THEN text
    ELSE <<91>> \o text \o <<93, 40>> \o url \o <<41>>      \* [text](url)

RECURSIVE SplitFrom(_, _, _)
\* s.split(): the maximal runs of non-whitespace of s, from position i on,
\* `cur` being the run read so far
SplitFrom(s, i, cur) ==
    IF i > Len(s) THEN (IF cur = <<>> THEN <<>> ELSE <<cur>>)
    ELSE IF s[i] \in Whitespace
         THEN (IF cur = <<>> THEN <<>> ELSE <<cur>>) \o SplitFrom(s, i + 1, <<>>)
         ELSE SplitFrom(s, i + 1, Append(cur, s[i]))

RECURSIVE Join(_, _)
\* sep.join(words)
Join(words, sep) ==
    IF words = <<>> THEN <<>>
    ELSE IF Len(words) = 1 THEN words[1]
    ELSE words[1] \o sep \o Join(Tail(words), sep)

\* " ".join(s.split())
Collapse(s) == Join(SplitFrom(s, 1, <<>>), Space)

\* truncate if it cut at n and not at n - 1
truncate_cut_at_n(s, n) ==
    IF s = <<>> THEN <<>>
    ELSE LET c == Collapse(s)
         IN  IF Len(c) > n THEN SliceTo(c, n) \o Ellipsis ELSE c

truncate(s, n) ==
    IF s = <<>> THEN <<>>
    ELSE LET c == Collapse(s)
         IN  IF Len(c) > n THEN SliceTo(c, n - 1) \o Ellipsis ELSE c

----------------------------------------------------------------------------
(* Ranking *)

\* the sort key if it put the forks first
StarsKeyForksFirst(r) == <<r.forks_count, r.stargazers_count>>

\* the sort key of top_repos_by_stars: the tuple (stars, forks)
StarsKey(r) == <<r.stargazers_count, r.forks_count>>

\* top_repos_by_stars if it took the first n before sorting them
top_repos_slice_first(rs, n) ==
    LET own == SliceTo(SelectSeqIdx(rs, 1, [i \in 1..Len(rs) |-> ~rs[i].fork]), n)
    IN  SortedDesc(own, [i \in 1..Len(own) |-> StarsKey(own[i])])

top_repos_by_stars(rs, n) ==
    LET own == SelectSeqIdx(rs, 1, [i \in 1..Len(rs) |-> ~rs[i].fork])
        srt == SortedDesc(own, [i \in 1..Len(own) |-> StarsKey(own[i])])
    IN  SliceTo(srt, n)

\* one table row: its four cells
TableRow(r) ==
    [repo  |-> md_link(r.name, r.html_url),
     stars |-> Str(r.stargazers_count),
     forks |-> Str(r.forks_count),
     desc  |-> truncate(r.description, DescLimit)]

PlaceholderRow ==
    [repo |-> Dash, stars |-> Dash, forks |-> Dash, desc |-> NoReposText]

\* repos_table_rows without its placeholder row
repos_table_rows_bare(rs, n) ==
    LET top == top_repos_by_stars(rs, n)
    IN  [i \in 1..Len(top) |-> TableRow(top[i])]

repos_table_rows(rs, n) ==
    LET top  == top_repos_by_stars(rs, n)
        rows == [i \in 1..Len(top) |-> TableRow(top[i])]
    IN  IF Len(rows) = 0 THEN <<PlaceholderRow>> ELSE rows

\* the sort key if it preferred the update time
PushKeyUpdatedFirst(r) == OrElse(r.updated_at, r.pushed_at)

\* the sort key of recent_activity_hint
PushKey(r) == OrElse(r.pushed_at, r.updated_at)

recent_activity_hint(rs) ==
    IF rs = <<>> THEN NoActivityText
    ELSE LET latest == SortedDesc(rs, [i \in 1..Len(rs) |-> PushKey(rs[i])])[1]
             pushed == PushKey(latest)
         IN  LatestPushText \o SliceTo(pushed, DateLen) \o ToText
                 \o md_link(latest.name, latest.html_url)

\* the document, as the values the template interpolates
build_markdown(u, rs) ==
    [username |-> u.login,
     name     |-> IF u.name = <<>> THEN Dash ELSE u.name,
     rows     |-> repos_table_rows(rs, TableN),
     activity |-> recent_activity_hint(rs)]

----------------------------------------------------------------------------
(* The HTTP client wrapper *)

RateLimitText == <<114, 97, 116, 101, 32, 108, 105, 109, 105, 116>>   \* "rate limit"

\* str.lower() on the ASCII letters
Lower(s) == [i \in 1..Len(s) |-> IF s[i] >= 65 /\ s[i] <= 90 THEN s[i] + 32 ELSE s[i]]

\* needle in hay
Contains(hay, needle) ==
    \E k \in 0..(Len(hay) - Len(needle)) :
        \A i \in 1..Len(needle) : hay[k + i] = needle[i]

\* raise_for_status() if it raised for the server errors alone
raise_for_status_5xx(status) == status >= 500 /\ status < 600

\* whether Response.raise_for_status() raises HTTPError: 4xx and 5xx only
raise_for_status(status) == status >= 400 /\ status < 600

\* what gh_get does with a response: "ok" when it returns it, else what it raises
gh_get(r) ==
    IF r.status = 404 THEN "SystemExit:NotFound"
    ELSE IF r.status = 403 /\ Contains(Lower(r.text), RateLimitText)
         THEN "SystemExit:RateLimited"
    ELSE IF raise_for_status(r.status) THEN "HTTPError"
    ELSE "ok"

\* r.json(): a body that is no JSON raises (a ValueError)
json(r) == IF r.json.kind = "invalid" THEN "Exception" ELSE "ok"

----------------------------------------------------------------------------
(* The responses the API may give *)

Statuses == {200, 304, 403, 404, 500}

Texts ==
    { <<65, 80, 73, 32, 114, 97, 116, 101, 32, 108, 105, 109, 105, 116, 32,
        101, 120, 99, 101, 101, 100, 101, 100>>,            \* "API rate limit exceeded"
      <<65, 80, 73, 32, 82, 97, 116, 101, 32, 76, 105, 109, 105, 116, 32,
        69, 120, 99, 101, 101, 100, 101, 100>>,             \* "API Rate Limit Exceeded"
      <<66, 97, 100, 32, 99, 114, 101, 100, 101, 110, 116, 105, 97, 108, 115>> }
                                                            \* "Bad credentials"

Repo(name, stars, forks, fork, pushed, updated) ==
    [name |-> name, html_url |-> <<104, 116, 116, 112, 115, 58, 47, 47>> \o name,
     stargazers_count |-> stars, forks_count |-> forks, fork |-> fork,
     pushed_at |-> pushed, updated_at |-> updated,
     description |-> <<72, 105, 32, 32, 116, 104, 101, 114, 101>>]   \* "Hi  there"

Stamp1 == <<50, 48, 50, 52, 45, 48, 49, 45, 48, 53, 84, 48, 57>>     \* "2024-01-05T09"

Stamp2 == <<50, 48, 50, 52, 45, 48, 49, 45, 48, 53, 84, 49, 55>>     \* "2024-01-05T17"

Stamp3 == <<50, 48, 50, 51, 45, 49, 50, 45, 51, 49, 84, 50, 51>>     \* "2023-12-31T23"

RepoA == Repo(<<97>>, 5, 1, FALSE, Stamp1, Stamp3)

RepoB == Repo(<<98>>, 10, 0, FALSE, <<>>, Stamp2)

RepoC == Repo(<<99>>, 10, 3, TRUE, Stamp3, Stamp3)

\* the i-th repository of page p: "p<p><i>", pushed on 2024-01-<p>
PageRepo(p, i) ==
    Repo(<<112>> \o Str(p) \o Str(i), (p % 3) * 5, p % 2, i = 2,
         IF p % 4 = 0 THEN <<>>
         ELSE <<50, 48, 50, 52, 45, 48, 49, 45>> \o Str(p \div 10) \o Str(p % 10) \o <<84>>,
         Stamp3)

\* the pages of repositories the API may return for page p: none, or a
\* page of one or two repositories
Batches(p) ==
    { <<>>, IF p % 2 = 1 THEN <<PageRepo(p, 1)>> ELSE <<PageRepo(p, 1), PageRepo(p, 2)>> }

InvalidJson == [kind |-> "invalid", login |-> <<>>, name |-> <<>>, items |-> <<>>]

NoUser == [kind |-> "none", login |-> <<>>, name |-> <<>>, items |-> <<>>]

UserJson ==
    { InvalidJson,
      [kind |-> "array", login |-> <<>>, name |-> <<>>, items |-> <<>>],
      [kind |-> "object", login |-> <<111, 99, 116, 111, 99, 97, 116>>,
       name |-> <<>>, items |-> <<>>] }

ReposJson(p) ==
    { InvalidJson } \cup
    { [kind |-> "array", login |-> <<>>, name |-> <<>>, items |-> b] : b \in Batches(p) }

Responses(bodies) == [status : Statuses, text : Texts, json : bodies]

----------------------------------------------------------------------------
(* main *)

Running == 0 - 1

\* no pure function is being applied
NoArg == [repos |-> <<>>, n |-> 0, s |-> <<>>]

Init ==
    /\ pc = "fetch_user"
    /\ user = NoUser
    /\ repos = <<>>
    /\ page = 1
    /\ md = <<>>
    /\ last = <<>>
    /\ log = <<>>
    /\ file \in { [state |-> "absent", doc |-> <<>>], [state |-> "old", doc |-> <<>>] }
    /\ opens = 0
    /\ exitCode = Running
    /\ handler = "none"
    /\ stderr = "none"
    /\ stdout = "none"
    /\ fn = "none"
    /\ arg = NoArg
    /\ res = <<>>

\* main's handlers if the last clause were `except BaseException`
main_except_base(exc) == IF exc = "HTTPError" THEN "HTTPError" ELSE "Exception"

\* which except clause of main catches the exception; SystemExit is no
\* Exception, so neither does
main_except(exc) ==
    CASE exc = "HTTPError" -> "HTTPError"
      [] exc = "Exception" -> "Exception"
      [] OTHER             -> "none"

\* the exit code if the generic clause printed the error and fell through
exit_status_fallthrough(exc) == IF exc = "Exception" THEN 0 ELSE 1

\* the code the process exits with after the exception
exit_status(exc) == 1

\* the diagnostic on the error stream
diagnostic(exc) ==
    CASE exc = "SystemExit:NotFound"    -> "Not found"
      [] exc = "SystemExit:RateLimited" -> "Rate limited"
      [] exc = "HTTPError"              -> "HTTP error"
      [] OTHER                          -> "Error"

\* a failure that is reported and then tried again
RaiseAndRetry(exc) ==
    /\ stderr' = diagnostic(exc)
    /\ UNCHANGED <<pc, handler, exitCode>>

\* an exception raised inside main's try block ends the process
Raise(exc) ==
    /\ pc' = "exit"
    /\ handler' = main_except(exc)
    /\ exitCode' = exit_status(exc)
    /\ stderr' = diagnostic(exc)

Entry(target, p, ok, batch) == [target |-> target, page |-> p, ok |-> ok, batch |-> batch]

\* user = fetch_user(args.username)
FetchUser ==
    /\ pc = "fetch_user"
    /\ \E r \in Responses(UserJson) :
        LET exc == IF gh_get(r) # "ok" THEN gh_get(r) ELSE json(r)
        IN  /\ last' = [status |-> r.status, text |-> r.text]
            /\ log' = Append(log, Entry("user", 0, exc = "ok", <<>>))
            /\ IF exc = "ok"
               THEN /\ user' = r.json
                    /\ pc' = "fetch_repos"
                    /\ UNCHANGED <<exitCode, handler, stderr>>
               ELSE /\ Raise(exc)
                    /\ UNCHANGED user
    /\ UNCHANGED <<repos, page, md, file, opens, stdout, pureVars>>

\* the safety stop if it compared with >=
safety_stop_early(p) == p >= MaxPages

\* the safety stop of fetch_repos, tested after page += 1
safety_stop(p) == p > MaxPages

\* one iteration of the loop of fetch_repos
FetchReposPage ==
    /\ pc = "fetch_repos"
    /\ \E r \in Responses(ReposJson(page)) :
        LET exc   == IF gh_get(r) # "ok" THEN gh_get(r) ELSE json(r)
            batch == IF exc = "ok" THEN r.json.items ELSE <<>>
        IN  /\ last' = [status |-> r.status, text |-> r.text]
            /\ log' = Append(log, Entry("repos", page, exc = "ok", batch))
            /\ IF exc # "ok"
               THEN /\ Raise(exc)
                    /\ UNCHANGED <<repos, page>>
               ELSE /\ UNCHANGED <<exitCode, handler, stderr>>
                    /\ IF batch = <<>>
                       THEN /\ pc' = "build_markdown"
                            /\ UNCHANGED <<repos, page>>
                       ELSE /\ repos' = repos \o batch
                            /\ page' = page + 1
                            /\ pc' = IF safety_stop(page + 1) THEN "build_markdown"
                                     ELSE "fetch_repos"
    /\ UNCHANGED <<user, md, file, opens, stdout, pureVars>>

\* md = build_markdown(user, repos): a user body that is no JSON object has
\* no .get and the render raises
BuildMarkdown ==
    /\ pc = "build_markdown"
    /\ IF user.kind = "object"
       THEN /\ md' = <<build_markdown(user, repos)>>
            /\ pc' = "write"
            /\ UNCHANGED <<exitCode, handler, stderr>>
       ELSE /\ Raise("Exception")
            /\ UNCHANGED md
    /\ UNCHANGED <<user, repos, page, last, log, file, opens, stdout, pureVars>>

\* with open(args.out, "w") as f: f.write(md) -- the open may fail (the file
\* is left as it was), or the write may fail after the open truncated it
WriteFile ==
    /\ pc = "write"
    /\ \E io \in {"open fails", "write fails", "ok"} :
        CASE io = "open fails" ->
                /\ Raise("Exception")
                /\ UNCHANGED <<file, opens>>
          [] io = "write fails" ->
                /\ Raise("Exception")
                /\ file' = [state |-> "truncated", doc |-> <<>>]
                /\ opens' = opens + 1
          [] OTHER ->
                /\ file' = [state |-> "written", doc |-> md]
                /\ opens' = opens + 1
                /\ pc' = "print"
                /\ UNCHANGED <<exitCode, handler, stderr>>
    /\ UNCHANGED <<user, repos, page, md, last, log, stdout, pureVars>>

\* print("Wrote ..."), still inside the try block, then the normal exit
PrintWrote ==
    /\ pc = "print"
    /\ \E io \in {"print fails", "ok"} :
        IF io = "ok"
        THEN /\ stdout' = "Wrote"
             /\ pc' = "exit"
             /\ exitCode' = 0
             /\ UNCHANGED <<handler, stderr>>
        ELSE /\ Raise("Exception")
             /\ UNCHANGED stdout
    /\ UNCHANGED <<user, repos, page, md, last, log, file, opens, pureVars>>

Next == FetchUser \/ FetchReposPage \/ BuildMarkdown \/ WriteFile \/ PrintWrote

Spec == Init /\ [][Next]_vars

\* the fetching steps run to their end: every request blocks until its
\* response arrives or its 30 s timeout raises, and the next statement of
\* fetch_user and fetch_repos then runs
FairSpec == Spec /\ WF_vars(FetchUser) /\ WF_vars(FetchReposPage)

----------------------------------------------------------------------------
(* Properties of main *)

\* the response carries the rate-limit indicator gh_get looks for
RateLimited(r) == r.status = 403 /\ Contains(Lower(r.text), RateLimitText)

\* the response is one of the two that end the process directly
ExitsDirectly(r) == r.status = 404 \/ RateLimited(r)

\* the requests for a page of repositories, in the order issued
PageRequests == SelectSeq(log, LAMBDA e : e.target = "repos")

RECURSIVE Concat(_)
Concat(entries) ==
    IF entries = <<>> THEN <<>> ELSE Head(entries).batch \o Concat(Tail(entries))

AllRequestsOk == \A i \in 1..Len(log) : log[i].ok

FileUntouched == opens = 0 /\ file.state \in {"absent", "old"} /\ file.doc = <<>>

\* C1: whenever the response just received by gh_get (for the user or for a
\* page of repositories) is a 404, or a 403 whose body holds "rate limit" in
\* any letter case, the process has ended with the Not-found (resp.
\* Rate-limited) message, neither except clause of main has run, and the
\* output file has not been opened: it is neither created nor overwritten.
C1_DirectExit ==
    (last # <<>> /\ ExitsDirectly(last)) =>
        /\ pc = "exit"
        /\ exitCode # Running
        /\ handler = "none"
        /\ stderr = (IF last.status = 404 THEN "Not found" ELSE "Rate limited")
        /\ stdout = "none"
        /\ md = <<>>
        /\ FileUntouched

\* a page request answered 403 "API Rate Limit Exceeded" while an old output
\* file exists
C1_Witness ==
    /\ pc = "exit"
    /\ Len(log) >= 2
    /\ last.status = 403
    /\ RateLimited(last)
    /\ ~Contains(last.text, RateLimitText)
    /\ stderr = "Rate limited"
    /\ file.state = "old"

\* C2, as stated: every response whose status is not 2xx, and that is neither
\* a 404 nor a rate-limited 403, makes gh_get raise HTTPError, which main's
\* HTTPError clause handles: exit code 1, the output file not written.
C2_AnyNon2xx ==
    (last # <<>> /\ ~(last.status >= 200 /\ last.status <= 299) /\ ~ExitsDirectly(last)) =>
        /\ pc = "exit"
        /\ handler = "HTTPError"
        /\ exitCode = 1
        /\ FileUntouched

\* C2, amended: every response whose status is 4xx or 5xx, and that is
\* neither a 404 nor a rate-limited 403, makes gh_get raise HTTPError, which
\* main's HTTPError clause handles: exit code 1, the output file not written.
C2_HttpError ==
    (last # <<>> /\ last.status >= 400 /\ last.status <= 599 /\ ~ExitsDirectly(last)) =>
        /\ pc = "exit"
        /\ handler = "HTTPError"
        /\ stderr = "HTTP error"
        /\ exitCode = 1
        /\ FileUntouched

\* a page request answered 403 without the rate-limit indicator
C2_Witness ==
    /\ pc = "exit"
    /\ Len(log) >= 2
    /\ last.status = 403
    /\ ~RateLimited(last)
    /\ handler = "HTTPError"

C3_Pages ==
    LET rp == PageRequests
    IN  /\ Len(rp) <= MaxPages
        /\ \A i \in 1..Len(rp) : rp[i].page = i
        /\ \A i \in 1..(Len(rp) - 1) : rp[i].ok /\ rp[i].batch # <<>>
        /\ pc = "fetch_repos" =>
              /\ Len(rp) < MaxPages
              /\ \A i \in 1..Len(rp) : rp[i].ok /\ rp[i].batch # <<>>
        /\ (pc \notin {"fetch_user", "fetch_repos"} /\ Len(rp) > 0 /\ AllRequestsOk) =>
              \/ rp[Len(rp)].batch = <<>>
              \/ Len(rp) = MaxPages
        /\ repos = Concat(rp)

\* C3: fetch_repos requests the pages 1, 2, 3, ... in this order and never
\* more than 10 of them, goes on only after a non-empty page and only while
\* fewer than 10 were fetched, returns right after the first empty page or
\* after page 10, with the concatenation of the fetched pages in page order,
\* and it always returns (or fails): main leaves the fetching steps.
C3_FetchRepos == [](C3_Pages) /\ <>(pc \notin {"fetch_user", "fetch_repos"})

\* ten non-empty pages were fetched and fetch_repos returned their fifteen
\* repositories
C3_Witness ==
    /\ pc = "build_markdown"
    /\ Len(PageRequests) = MaxPages
    /\ AllRequestsOk
    /\ Len(repos) = 15
    /\ repos[1].name # repos[15].name

\* every step of the pipeline succeeded: the fetches, the render, the write
PipelineSucceeded ==
    /\ Len(log) >= 2
    /\ AllRequestsOk
    /\ md = <<build_markdown(user, repos)>>
    /\ opens = 1
    /\ file = [state |-> "written", doc |-> md]

\* at most one request failed, it was the last one issued, and no step ran
\* after a failure
NothingRetried ==
    /\ \A i \in 1..(Len(log) - 1) : log[i].ok
    /\ opens <= 1
    /\ (~AllRequestsOk => opens = 0 /\ md = <<>>)

\* C4, as stated: the exit code is 0 exactly when the user fetch, every
\* repository fetch, the render and the file write succeeded, and 1 otherwise.
C4_ExitZeroIffWritten ==
    pc = "exit" =>
        /\ exitCode \in {0, 1}
        /\ exitCode = 0 <=> PipelineSucceeded

\* C4, amended: the exit code is 0 exactly when the user fetch, every
\* repository fetch, the render, the file write and the confirmation print
\* succeeded (the file then holds the rendered document), and 1 for every
\* failure; no failure is retried or recovered from.
C4_ExitCode ==
    /\ NothingRetried
    /\ pc # "exit" => exitCode = Running /\ stderr = "none"
    /\ pc = "exit" =>
        /\ exitCode \in {0, 1}
        /\ exitCode = 0 <=> (PipelineSucceeded /\ stdout = "Wrote")
        /\ exitCode = 0 <=> stderr = "none"

\* a successful run over three pages of repositories
C4_Witness ==
    /\ pc = "exit"
    /\ exitCode = 0
    /\ Len(repos) = 3
    /\ file.state = "written"
    /\ Len(file.doc[1].rows) = 2

\* C10: the user request is the first request and the only one for the user,
\* every later request is for a page no earlier request asked for, no request
\* follows a failed one, and the output file is opened for writing at most
\* once, only after every request of the run succeeded, fetch_repos returned
\* and the document was rendered.
C10_Sequential ==
    /\ pc # "fetch_user" => Len(log) >= 1
    /\ \A i \in 1..Len(log) : (log[i].target = "user") <=> (i = 1)
    /\ \A i, j \in 1..Len(log) :
          (i < j /\ log[i].target = "repos" /\ log[j].target = "repos") =>
              log[i].page < log[j].page
    /\ \A i \in 1..(Len(log) - 1) : log[i].ok
    /\ opens <= 1
    /\ opens = 1 =>
          /\ AllRequestsOk
          /\ Len(PageRequests) >= 1
          /\ pc \in {"print", "exit"}
          /\ md = <<build_markdown(user, repos)>>

\* a run that wrote the file after the user request and three page requests
C10_Witness ==
    /\ pc = "exit"
    /\ opens = 1
    /\ Len(log) = 4
    /\ file.state = "written"

----------------------------------------------------------------------------
(* The helpers applied to bounded inputs *)

MaxRepos == 3       \* longest repository list tried

MaxLen == 4         \* longest description tried

MaxLimit == 4       \* largest length limit tried

StampShort == <<50, 48, 50, 52>>                                      \* "2024"

\* the repositories the lists are made of: ties on stars, on (stars, forks)
\* and on the push time, forks, missing timestamps, descriptions and URLs
SampleRepos ==
    { RepoA, RepoB, RepoC,
      [Repo(<<100>>, 10, 3, FALSE, Stamp2, <<>>) EXCEPT !.html_url = <<>>],
      [Repo(<<101>>, 5, 1, FALSE, <<>>, <<>>) EXCEPT !.description = <<>>],
      Repo(<<102>>, 0, 0, TRUE, StampShort, Stamp1),
      Repo(<<103>>, 10, 0, FALSE, Stamp1, Stamp2) }

\* the lists of at most MaxRepos sample repositories, the i-th one named by
\* the i-th letter
RepoLists ==
    UNION { { [i \in 1..k |-> [rs[i] EXCEPT !.name = <<96 + i>>]] :
                rs \in [1..k -> SampleRepos] } : k \in 0..MaxRepos }

Chars == {32, 9, 97, 98}

Strings == UNION { [1..k -> Chars] : k \in 0..MaxLen }

SampleUser ==
    [kind |-> "object", login |-> <<111, 99, 116, 111, 99, 97, 116>>,
     name |-> <<>>, items |-> <<>>]

\* main is not running
MainIdle ==
    /\ pc = "idle"
    /\ user = NoUser
    /\ repos = <<>>
    /\ page = 1
    /\ md = <<>>
    /\ last = <<>>
    /\ log = <<>>
    /\ file = [state |-> "absent", doc |-> <<>>]
    /\ opens = 0
    /\ exitCode = Running
    /\ handler = "none"
    /\ stderr = "none"
    /\ stdout = "none"

RankInit ==
    /\ MainIdle
    /\ fn = "none"
    /\ arg \in [repos : RepoLists, n : 0..(MaxRepos + 1), s : {<<>>}]
    /\ res = <<>>

CallTopRepos ==
    /\ fn = "none"
    /\ fn' = "top_repos_by_stars"
    /\ res' = top_repos_by_stars(arg.repos, arg.n)
    /\ UNCHANGED <<arg, mainVars>>

CallTableRows ==
    /\ fn = "none"
    /\ fn' = "repos_table_rows"
    /\ res' = repos_table_rows(arg.repos, arg.n)
    /\ UNCHANGED <<arg, mainVars>>

CallActivityHint ==
    /\ fn = "none"
    /\ fn' = "recent_activity_hint"
    /\ res' = recent_activity_hint(arg.repos)
    /\ UNCHANGED <<arg, mainVars>>

CallBuildMarkdown ==
    /\ fn = "none"
    /\ fn' = "build_markdown"
    /\ res' = build_markdown(SampleUser, arg.repos)
    /\ UNCHANGED <<arg, mainVars>>

RankNext == CallTopRepos \/ CallTableRows \/ CallActivityHint \/ CallBuildMarkdown

RankSpec == RankInit /\ [][RankNext]_vars

TextInit ==
    /\ MainIdle
    /\ fn = "none"
    /\ arg \in [repos : {<<>>}, n : 0..MaxLimit, s : Strings]
    /\ res = <<>>

CallTruncate ==
    /\ fn = "none"
    /\ fn' = "truncate"
    /\ res' = truncate(arg.s, arg.n)
    /\ UNCHANGED <<arg, mainVars>>

TextNext == CallTruncate

TextSpec == TextInit /\ [][TextNext]_vars

----------------------------------------------------------------------------
(* Properties of the helpers *)

\* the repositories of the specification's example: a (5 stars, 1 fork), b (10, 0),
\* c (10, 3, a fork)
ExampleRepos ==
    << [RepoA EXCEPT !.name = <<97>>], [RepoB EXCEPT !.name = <<98>>],
       [RepoC EXCEPT !.name = <<99>>] >>

\* the positions of the list's repositories that are no forks
NonForks(rs) == { i \in 1..Len(rs) : ~rs[i].fork }

\* a ranks strictly above b: more stars, or as many stars and more forks
RanksAbove(a, b) ==
    \/ a.stargazers_count > b.stargazers_count
    \/ a.stargazers_count = b.stargazers_count /\ a.forks_count > b.forks_count

\* C5: in the list top_repos_by_stars returns, a repository with more stars
\* than another one, or with as many stars and more forks, comes before it.
C5_Ranking ==
    fn = "top_repos_by_stars" =>
        \A i, j \in 1..Len(res) : RanksAbove(res[i], res[j]) => i < j

\* the example: of a, b, c the function returns b, then a
C5_Witness ==
    /\ fn = "top_repos_by_stars"
    /\ arg.repos = ExampleRepos
    /\ arg.n = 2
    /\ Len(res) = 2
    /\ res[1].name = <<98>>
    /\ res[2].name = <<97>>

\* C6: the list top_repos_by_stars(repos, N) returns holds no fork, holds
\* min(N, number of non-forks) repositories, each of them a different
\* non-fork of the input, and no non-fork it leaves out ranks above one it
\* holds.
C6_TopN ==
    fn = "top_repos_by_stars" =>
        LET own == NonForks(arg.repos)
        IN  /\ \A i \in 1..Len(res) : ~res[i].fork
            /\ Len(res) = Min(arg.n, Cardinality(own))
            /\ \A i \in 1..Len(res) : \E k \in own : res[i] = arg.repos[k]
            /\ \A i, j \in 1..Len(res) : i # j => res[i].name # res[j].name
            /\ \A k \in own :
                  (\A i \in 1..Len(res) : res[i] # arg.repos[k]) =>
                      \A i \in 1..Len(res) : ~RanksAbove(arg.repos[k], res[i])

\* three non-forks and N = 2: the lowest-ranked one, listed first, is left out
C6_Witness ==
    /\ fn = "top_repos_by_stars"
    /\ Len(arg.repos) = 3
    /\ Cardinality(NonForks(arg.repos)) = 3
    /\ arg.n = 2
    /\ Len(res) = 2
    /\ \A i \in 1..2 : res[i] # arg.repos[1] /\ RanksAbove(res[i], arg.repos[1])

\* the string has the shape " ".join(s.split()) gives: no whitespace but
\* single spaces between two other characters
Collapsed(c) ==
    \A i \in 1..Len(c) :
        c[i] \in Whitespace =>
            /\ c[i] = 32
            /\ i > 1 /\ i < Len(c)
            /\ c[i - 1] \notin Whitespace

\* C7, as stated: for every limit L, truncate(S, L) is the collapsed S when
\* that is at most L long, and else has length L and ends with the ellipsis.
C7_AnyLimit ==
    fn = "truncate" =>
        LET c == Collapse(arg.s)
        IN  IF Len(c) <= arg.n THEN res = c
            ELSE Len(res) = arg.n /\ res[Len(res)] = Ellipsis[1]

\* C7, amended: for every limit L >= 1, truncate(S, L) is the collapsed S
\* (S without leading, trailing and repeated whitespace) when that is at most
\* L long, and else it is its first L - 1 characters and the ellipsis: L long.
C7_Truncate ==
    (fn = "truncate" /\ arg.n >= 1) =>
        LET c == Collapse(arg.s)
        IN  /\ Collapsed(c)
            /\ IF Len(c) <= arg.n THEN res = c
               ELSE /\ Len(res) = arg.n
                    /\ res[Len(res)] = Ellipsis[1]
                    /\ \A i \in 1..(arg.n - 1) : res[i] = c[i]

\* "a\tb" with limit 2: collapsed to "a b", three long, and cut to "a..."
C7_Witness ==
    /\ fn = "truncate"
    /\ arg.s = <<97, 9, 98>>
    /\ arg.n = 2
    /\ res = <<97, 8230>>

\* C8: repos_table_rows never returns an empty list: it returns one row for
\* each of the min(n, number of non-forks) ranked repositories, in their
\* order, when there is one, the single placeholder row when no repository
\* is left after the forks are removed, and for a user without repositories
\* the document has the "No public activity found." line and the placeholder
\* row alone.
C8_Rows ==
    /\ fn = "repos_table_rows" =>
          LET k   == Min(arg.n, Cardinality(NonForks(arg.repos)))
              top == top_repos_by_stars(arg.repos, arg.n)
          IN  /\ Len(res) >= 1
              /\ k >= 1 => /\ Len(res) = k
                           /\ \A i \in 1..k : res[i] = TableRow(top[i])
                           /\ \A i \in 1..k : res[i] # PlaceholderRow
              /\ NonForks(arg.repos) = {} => res = <<PlaceholderRow>>
    /\ (fn = "build_markdown" /\ arg.repos = <<>>) =>
          /\ res.activity = NoActivityText
          /\ res.rows = <<PlaceholderRow>>

\* a list of forks alone gets the placeholder row
C8_Witness ==
    /\ fn = "repos_table_rows"
    /\ Len(arg.repos) = 2
    /\ NonForks(arg.repos) = {}
    /\ arg.n = 2
    /\ res = <<PlaceholderRow>>

\* the key recent_activity_hint orders by: pushed_at if present, else
\* updated_at, else the empty string
ActivityKey(r) ==
    IF r.pushed_at # <<>> THEN r.pushed_at
    ELSE IF r.updated_at # <<>> THEN r.updated_at
    ELSE <<>>

\* C9: for a non-empty list recent_activity_hint names a repository whose key
\* no other key of the list is lexicographically greater than, with the first
\* 10 characters of that key as the date; for the empty list it returns the
\* "No public activity found." sentence.
C9_LatestPush ==
    fn = "recent_activity_hint" =>
        IF arg.repos = <<>> THEN res = NoActivityText
        ELSE \E i \in 1..Len(arg.repos) :
                LET r == arg.repos[i]
                    k == ActivityKey(r)
                IN  /\ \A j \in 1..Len(arg.repos) :
                          ~LexLess(k, ActivityKey(arg.repos[j]))
                    /\ res = LatestPushText
                               \o SubSeq(k, 1, Min(DateLen, Len(k)))
                               \o ToText
                               \o md_link(r.name, r.html_url)

\* the example: b has no pushed_at and the greatest updated_at, "2024-01-05T17"
C9_Witness ==
    /\ fn = "recent_activity_hint"
    /\ arg.repos = ExampleRepos
    /\ res = LatestPushText
               \o <<50, 48, 50, 52, 45, 48, 49, 45, 48, 53>>
               \o ToText
               \o md_link(<<98>>, ExampleRepos[2].html_url)

====
